---- MODULE Spec2Model ----
(***************************************************************************)
(* Model of service_functions/embeddings/src/feature_extractor.py:         *)
(* extract_embeddings with its process-wide lazily built pipeline cache,   *)
(* _create_embedding_pipeline, _get_cuda_device and _execute_inference.    *)
(*                                                                         *)
(* A Python optional value is modelled as a sequence of length 0 or 1:     *)
(* None is <<>> and an object x is <<x>>.                                  *)
(***************************************************************************)
EXTENDS Integers, Sequences, FiniteSets, TLC

\* ---------------------------------------------------------------- bounds
\* Longest batch of rows handed to one call.
MaxRows == 2
\* Number of extract_embeddings calls made in one process lifetime.
MaxCalls == 3

\* ---------------------------------------------------------------- inputs
\* Threads of the one worker process that may call extract_embeddings.
Threads == {1, 2}
\* The thread of a process that calls serially.
MainThread == CHOOSE t \in Threads : \A u \in Threads : t <= u
IdxValues == {3, 5, 7}
Texts == {"a", "b"}
BatchSizes == {1, 8}
ModelNames == {"m1", "m2"}
TokenizerNames == {"t1", "t2"}

None == <<>>
Some(x) == <<x>>

\* @dataclass ModelConfiguration
ModelConfiguration ==
    {mc \in [model_name : ModelNames, tokenizer_name : TokenizerNames] :
        mc.model_name = "m1" \/ mc.tokenizer_name = "t1"}
\* @dataclass InputRow
InputRow == [idx : IdxValues, text : Texts]
\* @dataclass OutputRow
OutputRow(idx, embeddings) == [idx |-> idx, embeddings |-> embeddings]

SeqsUpTo(S, n) == UNION {[1..k -> S] : k \in 0..n}

\* Batches a caller may pass: rows with pairwise distinct idx.
Batches ==
    {b \in SeqsUpTo(InputRow, MaxRows) :
        \A i, j \in 1..Len(b) : i # j => b[i].idx # b[j].idx}

\* Batches used when two calls overlap (the cache race does not read the rows).
ShortBatches == {<<[idx |-> 7, text |-> "a"]>>}

\* ------------------------------------------------- the external pipeline
\* The tensor a deterministic feature-extraction backend yields for one text:
\* nested as [1][tokens][dim]; embedding[0][0] is the vector that is rendered.
Embed(text) ==
    IF text = "a" THEN << << <<1, -2>>, <<9, 9>> >> >>
                  ELSE << << <<30, 4>>, <<8, 8>> >> >>

\* embedding_pipeline(input_batch, truncation=True) of a pipeline that keeps
\* count and order: one tensor per text.
PipelineCall(input_batch) == [i \in 1..Len(input_batch) |-> Embed(input_batch[i])]

\* What a pipeline that does not keep count or order could hand back.
AnyEmbeddings(input_batch) ==
    SeqsUpTo({Embed(x) : x \in Texts}, Len(input_batch) + 1)

\* ---------------------------------------------------------------- state
VARIABLES
    embedding_pipeline, \* the module global: None or Some(pipeline)
    pc,                 \* where each thread is inside extract_embeddings
    rows,               \* argument rows of the thread's current call
    batch_size,         \* argument batch_size
    model_config,       \* argument model_config
    texts,              \* local texts (line 53)
    built,              \* value returned by _create_embedding_pipeline, not yet stored
    used,               \* the pipeline object passed to _execute_inference (line 57)
    result,             \* local result (line 57)
    ret,                \* the list returned to the caller, None while there is none
    err,                \* the exception that left the call, "none" if none did
    calls,              \* extract_embeddings calls started so far
    nCreate,            \* _create_embedding_pipeline invocations so far
    nCreateOk,          \* of these, the ones that returned a pipeline
    createArgs          \* (batch_size, model_config) of the latest invocation

vars == <<embedding_pipeline, pc, rows, batch_size, model_config, texts, built,
          used, result, ret, err, calls, nCreate, nCreateOk, createArgs>>

callVars == <<rows, batch_size, model_config, texts>>
createVars == <<nCreate, nCreateOk, createArgs>>

\* ------------------------------------------------------------ functions
_get_cuda_device == 0

\* ' '.join(map(str, v))
RECURSIVE Join(_)
Join(v) ==
    IF v = <<>> THEN ""
    ELSE IF Len(v) = 1 THEN ToString(v[1])
    ELSE ToString(v[1]) \o " " \o Join(Tail(v))

\* The pipeline object built by pipeline("feature-extraction", ...); id is the
\* object's identity.
NewPipeline(id, device, bs, mc) ==
    [id |-> id, device |-> device, batch_size |-> bs,
     model_name |-> mc.model_name, tokenizer_name |-> mc.tokenizer_name]

\* _execute_inference once the pipeline call has returned `embeddings`
\* (Python's embedding[0][0] is embedding[1][1] here).
_execute_inference(embeddings, input_batch) ==
    [inputs  |-> input_batch,
     outputs |-> [i \in 1..Len(embeddings) |-> Join(embeddings[i][1][1])],
     index   |-> 0]

\* Faulty variant: the result is refused when the output count differs from the row count.
BuildRaises_LengthChecked(rs, res) == Len(res.outputs) # Len(rs)

\* Faulty variant: the comprehension stops one output early.
BuildRows_OffByOne(rs, res) ==
    [i \in 1..(IF Len(res.outputs) = 0 THEN 0 ELSE Len(res.outputs) - 1) |->
        OutputRow(rs[i].idx, res.outputs[i])]

\* Faulty variant: idx is looked up from the row whose text renders to the output.
BuildRows_ByMatch(rs, res) ==
    [i \in 1..Len(res.outputs) |->
        LET hits == {j \in 1..Len(rs) :
                        _execute_inference(PipelineCall(<<rs[j].text>>), <<rs[j].text>>).outputs[1]
                            = res.outputs[i]}
        IN  OutputRow(IF hits = {} THEN rs[i].idx
                      ELSE rs[CHOOSE j \in hits : \A k \in hits : j <= k].idx,
                      res.outputs[i])]

\* The list comprehension of line 58; rows[idx] beyond the end raises IndexError.
BuildRaises(rs, res) == Len(res.outputs) > Len(rs)
BuildRows(rs, res) ==
    [i \in 1..Len(res.outputs) |-> OutputRow(rs[i].idx, res.outputs[i])]

\* ---------------------------------------------------------------- Init
Init ==
    /\ embedding_pipeline = None
    /\ pc = [t \in Threads |-> "idle"]
    /\ rows = [t \in Threads |-> <<>>]
    /\ batch_size = [t \in Threads |-> 1]
    /\ model_config = [t \in Threads |-> [model_name |-> "m1", tokenizer_name |-> "t1"]]
    /\ texts = [t \in Threads |-> <<>>]
    /\ built = [t \in Threads |-> None]
    /\ used = [t \in Threads |-> None]
    /\ result = [t \in Threads |-> None]
    /\ ret = [t \in Threads |-> None]
    /\ err = [t \in Threads |-> "none"]
    /\ calls = 0
    /\ nCreate = 0
    /\ nCreateOk = 0
    /\ createArgs = None

\* The call has ended: its value or its exception is with the caller.
Outside(t) == pc[t] \in {"returned", "raised"}

\* --------------------------------------------------------------- actions
\* The caller enters extract_embeddings; line 53 builds texts.
Call(t, B, S, M) ==
    /\ pc[t] = "idle"
    /\ calls < MaxCalls
    /\ \E rs \in B, bs \in S, mc \in M :
        /\ rows' = [rows EXCEPT ![t] = rs]
        /\ batch_size' = [batch_size EXCEPT ![t] = bs]
        /\ model_config' = [model_config EXCEPT ![t] = mc]
        /\ texts' = [texts EXCEPT ![t] = [i \in 1..Len(rs) |-> rs[i].text]]
    /\ pc' = [pc EXCEPT ![t] = "check"]
    /\ calls' = calls + 1
    /\ UNCHANGED <<embedding_pipeline, built, used, result, ret, err, createVars>>

\* A serial caller: no other call of the process is in flight.
SerialCall(t) ==
    /\ \A u \in Threads : pc[u] = "idle"
    /\ Call(t, Batches, BatchSizes, ModelConfiguration)

\* A serial caller that passes the same batch_size and model_config every time
\* (the pairing of outputs with rows reads neither).
SerialCallFixed(t) ==
    /\ \A u \in Threads : pc[u] = "idle"
    /\ Call(t, Batches, {8}, {[model_name |-> "m1", tokenizer_name |-> "t1"]})

\* The caller has taken the value or the exception; the frame and its locals
\* are gone, the global stays.
Leave(t) ==
    /\ Outside(t)
    /\ pc' = [pc EXCEPT ![t] = "idle"]
    /\ rows' = [rows EXCEPT ![t] = <<>>]
    /\ batch_size' = [batch_size EXCEPT ![t] = 1]
    /\ model_config' = [model_config EXCEPT ![t] = [model_name |-> "m1", tokenizer_name |-> "t1"]]
    /\ texts' = [texts EXCEPT ![t] = <<>>]
    /\ built' = [built EXCEPT ![t] = None]
    /\ used' = [used EXCEPT ![t] = None]
    /\ result' = [result EXCEPT ![t] = None]
    /\ ret' = [ret EXCEPT ![t] = None]
    /\ err' = [err EXCEPT ![t] = "none"]
    /\ UNCHANGED <<embedding_pipeline, calls, createVars>>

\* A caller that does not wait for the other thread's call.
ConcurrentCall(t) == Call(t, ShortBatches, BatchSizes, ModelConfiguration)

\* Faulty variant: the cached pipeline is rebuilt when the call's batch_size differs.
CheckCache_BatchAware(t) ==
    /\ pc[t] = "check"
    /\ pc' = [pc EXCEPT ![t] =
            IF embedding_pipeline = None \/ embedding_pipeline[1].batch_size # batch_size[t]
            THEN "create" ELSE "infer"]
    /\ UNCHANGED <<embedding_pipeline, callVars, built, used, result, ret, err,
                   calls, createVars>>

\* Faulty variant: the cached pipeline is rebuilt when the call's model_config differs.
CheckCache_ConfigAware(t) ==
    /\ pc[t] = "check"
    /\ pc' = [pc EXCEPT ![t] =
            IF \/ embedding_pipeline = None
               \/ embedding_pipeline[1].model_name # model_config[t].model_name
               \/ embedding_pipeline[1].tokenizer_name # model_config[t].tokenizer_name
            THEN "create" ELSE "infer"]
    /\ UNCHANGED <<embedding_pipeline, callVars, built, used, result, ret, err,
                   calls, createVars>>

\* Faulty variant: an empty batch returns [] before the cache is looked at.
CheckCache_SkipEmpty(t) ==
    /\ pc[t] = "check"
    /\ IF texts[t] = <<>>
       THEN /\ ret' = [ret EXCEPT ![t] = Some(<<>>)]
            /\ pc' = [pc EXCEPT ![t] = "returned"]
       ELSE /\ pc' = [pc EXCEPT ![t] =
                    IF embedding_pipeline = None THEN "create" ELSE "infer"]
            /\ UNCHANGED ret
    /\ UNCHANGED <<embedding_pipeline, callVars, built, used, result, err,
                   calls, createVars>>

\* Line 55: if embedding_pipeline is None
CheckCache(t) ==
    /\ pc[t] = "check"
    /\ pc' = [pc EXCEPT ![t] = IF embedding_pipeline = None THEN "create" ELSE "infer"]
    /\ UNCHANGED <<embedding_pipeline, callVars, built, used, result, ret, err,
                   calls, createVars>>

\* Line 56, right-hand side: _create_embedding_pipeline returns a pipeline.
CreatePipeline(t) ==
    /\ pc[t] = "create"
    /\ built' = [built EXCEPT ![t] =
            Some(NewPipeline(nCreate + 1, _get_cuda_device, batch_size[t], model_config[t]))]
    /\ nCreate' = nCreate + 1
    /\ nCreateOk' = nCreateOk + 1
    /\ createArgs' = Some(<<batch_size[t], model_config[t]>>)
    /\ pc' = [pc EXCEPT ![t] = "store"]
    /\ UNCHANGED <<embedding_pipeline, callVars, used, result, ret, err, calls>>

\* Faulty variant: a failed construction leaves a half-built pipeline in the cache.
CreatePipelineFails_CachesBroken(t) ==
    /\ pc[t] = "create"
    /\ nCreate' = nCreate + 1
    /\ createArgs' = Some(<<batch_size[t], model_config[t]>>)
    /\ embedding_pipeline' =
            Some(NewPipeline(nCreate + 1, _get_cuda_device, batch_size[t], model_config[t]))
    /\ err' = [err EXCEPT ![t] = "AssetResolutionFailure"]
    /\ pc' = [pc EXCEPT ![t] = "raised"]
    /\ UNCHANGED <<callVars, built, used, result, ret, calls, nCreateOk>>

\* Line 56, right-hand side: from_pretrained (lines 64-68) raises.
CreatePipelineFails(t) ==
    /\ pc[t] = "create"
    /\ nCreate' = nCreate + 1
    /\ createArgs' = Some(<<batch_size[t], model_config[t]>>)
    /\ err' = [err EXCEPT ![t] = "AssetResolutionFailure"]
    /\ pc' = [pc EXCEPT ![t] = "raised"]
    /\ UNCHANGED <<embedding_pipeline, callVars, built, used, result, ret, calls,
                   nCreateOk>>

\* Faulty variant: the pipeline is bound to a local name, the global stays unset.
StorePipeline_Local(t) ==
    /\ pc[t] = "store"
    /\ pc' = [pc EXCEPT ![t] = "infer"]
    /\ UNCHANGED <<embedding_pipeline, callVars, built, used, result, ret, err, calls,
                   createVars>>

\* Faulty variant: the store is guarded, the first pipeline stored wins.
StorePipeline_IfUnset(t) ==
    /\ pc[t] = "store"
    /\ embedding_pipeline' = IF embedding_pipeline = None THEN built[t] ELSE embedding_pipeline
    /\ pc' = [pc EXCEPT ![t] = "infer"]
    /\ UNCHANGED <<callVars, built, used, result, ret, err, calls, createVars>>

\* Line 56, the store to the global.
StorePipeline(t) ==
    /\ pc[t] = "store"
    /\ embedding_pipeline' = built[t]
    /\ pc' = [pc EXCEPT ![t] = "infer"]
    /\ UNCHANGED <<callVars, built, used, result, ret, err, calls, createVars>>

\* Line 57 with the pipeline call returning `embeddings`; calling None raises
\* TypeError.
InferWith(t, embeddings) ==
    /\ pc[t] = "infer"
    /\ used' = [used EXCEPT ![t] = embedding_pipeline]
    /\ IF embedding_pipeline = None
       THEN /\ err' = [err EXCEPT ![t] = "TypeError"]
            /\ pc' = [pc EXCEPT ![t] = "raised"]
            /\ UNCHANGED result
       ELSE /\ result' = [result EXCEPT ![t] = Some(_execute_inference(embeddings, texts[t]))]
            /\ pc' = [pc EXCEPT ![t] = "build"]
            /\ UNCHANGED err
    /\ UNCHANGED <<embedding_pipeline, callVars, built, ret, calls, createVars>>

\* Line 57, the pipeline keeps count and order.
ExecuteInference(t) == InferWith(t, PipelineCall(texts[t]))

\* Line 57, the pipeline hands back some other list.
ExecuteInferenceAny(t) ==
    \E e \in AnyEmbeddings(texts[t]) : e # PipelineCall(texts[t]) /\ InferWith(t, e)

\* Faulty variant: the failure is caught and the outputs produced so far are kept.
ExecuteInferenceFails_Partial(t) ==
    /\ pc[t] = "infer"
    /\ embedding_pipeline # None
    /\ used' = [used EXCEPT ![t] = embedding_pipeline]
    /\ err' = [err EXCEPT ![t] = "InferenceFailure"]
    /\ result' = [result EXCEPT ![t] =
            Some(_execute_inference(SubSeq(PipelineCall(texts[t]), 1, Len(texts[t]) - 1),
                                    texts[t]))]
    /\ pc' = [pc EXCEPT ![t] = "build"]
    /\ UNCHANGED <<embedding_pipeline, callVars, built, ret, calls, createVars>>

\* Line 57, the pipeline call (line 97) raises.
ExecuteInferenceFails(t) ==
    /\ pc[t] = "infer"
    /\ embedding_pipeline # None
    /\ used' = [used EXCEPT ![t] = embedding_pipeline]
    /\ err' = [err EXCEPT ![t] = "InferenceFailure"]
    /\ pc' = [pc EXCEPT ![t] = "raised"]
    /\ UNCHANGED <<embedding_pipeline, callVars, built, result, ret, calls, createVars>>

\* Line 58.
BuildResult(t) ==
    /\ pc[t] = "build"
    /\ IF BuildRaises(rows[t], result[t][1])
       THEN /\ err' = [err EXCEPT ![t] = "IndexError"]
            /\ pc' = [pc EXCEPT ![t] = "raised"]
            /\ UNCHANGED ret
       ELSE /\ ret' = [ret EXCEPT ![t] = Some(BuildRows(rows[t], result[t][1]))]
            /\ pc' = [pc EXCEPT ![t] = "returned"]
            /\ UNCHANGED err
    /\ UNCHANGED <<embedding_pipeline, callVars, built, used, result, calls, createVars>>

\* -------------------------------------------------------- specifications
\* The steps of a call after its entry.
Body(t) ==
    \/ CheckCache(t)
    \/ CreatePipeline(t)
    \/ CreatePipelineFails(t)
    \/ StorePipeline(t)
    \/ ExecuteInference(t)
    \/ ExecuteInferenceFails(t)
    \/ BuildResult(t)
    \/ Leave(t)

\* One process, calls made one after the other, a count- and order-preserving
\* pipeline.
Next == SerialCall(MainThread) \/ Body(MainThread)
Spec == Init /\ [][Next]_vars

\* One process, two threads whose calls may overlap.
NextConcurrent == \E t \in Threads : ConcurrentCall(t) \/ Body(t)
SpecConcurrent == Init /\ [][NextConcurrent]_vars

\* Serial calls on a pipeline that may hand back any list of outputs.
NextUnchecked ==
    \/ SerialCallFixed(MainThread)
    \/ Body(MainThread)
    \/ ExecuteInferenceAny(MainThread)
SpecUnchecked == Init /\ [][NextUnchecked]_vars

\* ----------------------------------------------------------------- claims
\* The rendered output of a count- and order-preserving pipeline for one text.
Rendered(text) == _execute_inference(PipelineCall(<<text>>), <<text>>).outputs[1]

\* C1: a call that returns hands back exactly as many output rows as it was
\* given input rows, whether it built the pipeline or found it cached.
C1_SameLength ==
    \A t \in Threads : pc[t] = "returned" => Len(ret[t][1]) = Len(rows[t])

\* A call given two rows found the pipeline cached and returned.
C1_Witness ==
    /\ pc[MainThread] = "returned"
    /\ Len(rows[MainThread]) = 2
    /\ built[MainThread] = None
    /\ embedding_pipeline # None

\* C2: at every position of a returned result the output row's idx is the idx
\* of the input row at the same position, whatever the texts, the idx values
\* and the outputs of inference are.
C2_IdxByPosition ==
    \A t \in Threads :
        pc[t] = "returned" =>
            \A i \in 1..Len(ret[t][1]) : ret[t][1][i].idx = rows[t][i].idx

\* Rows with idx 7 then 3 and equal texts came back as idx 7 then 3.
C2_Witness ==
    /\ pc[MainThread] = "returned"
    /\ Len(ret[MainThread][1]) = 2
    /\ ret[MainThread][1][1].idx = 7
    /\ ret[MainThread][1][2].idx = 3
    /\ rows[MainThread][1].text = rows[MainThread][2].text

\* C3 as stated: over serial calls pipeline construction is invoked at most
\* once in the process.
C3_ConstructionInvokedOnce == nCreate <= 1

\* C3 as amended: over serial calls at most one construction ever succeeds,
\* and once the cache holds a pipeline no construction is invoked again and
\* the cache keeps that very pipeline object.
C3_ConstructedOnce ==
    [][/\ nCreateOk' <= 1
       /\ embedding_pipeline # None =>
            /\ embedding_pipeline' = embedding_pipeline
            /\ nCreate' = nCreate]_vars

\* After a failed construction and a successful one, a third call returned
\* from the cached pipeline without building.
C3_Witness ==
    /\ pc[MainThread] = "returned"
    /\ built[MainThread] = None
    /\ nCreate = 2
    /\ nCreateOk = 1
    /\ used[MainThread] = embedding_pipeline

\* C4 as stated: a call with empty rows that returns hands back the empty
\* list and has not invoked inference.
C4_EmptySkipsInference ==
    \A t \in Threads :
        (rows[t] = <<>> /\ pc[t] = "returned") =>
            /\ ret[t] = Some(<<>>)
            /\ used[t] = None

\* C4 as amended: a call with empty rows that returns hands back the empty
\* list after invoking inference on the empty text list; it raises only when
\* asset loading or inference fails.
C4_EmptyRunsInference ==
    \A t \in Threads :
        rows[t] = <<>> =>
            /\ pc[t] = "returned" =>
                /\ ret[t] = Some(<<>>)
                /\ used[t] # None
                /\ result[t] # None
                /\ result[t][1].inputs = <<>>
            /\ pc[t] = "raised" =>
                err[t] \in {"AssetResolutionFailure", "InferenceFailure"}

\* A call with empty rows returned [] after the pipeline was called.
C4_Witness ==
    /\ pc[MainThread] = "returned"
    /\ rows[MainThread] = <<>>
    /\ ret[MainThread] = Some(<<>>)
    /\ used[MainThread] # None

\* C5: a pipeline is built with the batch_size of the call that builds it,
\* and once cached its batch size stays what it is, whatever batch_size later
\* calls pass.
C5_BatchSizeFrozen ==
    [][/\ \A t \in Threads :
            (built[t] = None /\ built'[t] # None) =>
                built'[t][1].batch_size = batch_size[t]
       /\ embedding_pipeline # None =>
            /\ embedding_pipeline' # None
            /\ embedding_pipeline'[1].batch_size = embedding_pipeline[1].batch_size]_vars

\* A call returned whose batch_size is not the cached pipeline's.
C5_Witness ==
    /\ pc[MainThread] = "returned"
    /\ embedding_pipeline # None
    /\ embedding_pipeline[1].batch_size # batch_size[MainThread]

\* C6: a call is left by an exception exactly when asset loading or inference
\* (or the result loop) failed, the failing step is not run again, and such a
\* call hands no output rows to the caller.
C6_AllOrNothing ==
    \A t \in Threads :
        /\ err[t] # "none" <=> pc[t] = "raised"
        /\ err[t] # "none" => ret[t] = None
        /\ pc[t] = "returned" => ret[t] # None

\* Inference failed on a batch of two rows: the call raised and returned nothing.
C6_Witness ==
    /\ pc[MainThread] = "raised"
    /\ err[MainThread] = "InferenceFailure"
    /\ Len(rows[MainThread]) = 2
    /\ ret[MainThread] = None

\* C7: with overlapping calls, a call that saw the cache unset constructs a
\* pipeline whatever the cache holds by then, its store overwrites whatever
\* the cache holds, and no call invokes inference on an unset cache.
C7_UnguardedRace ==
    [][\A t \in Threads :
        /\ (pc[t] = "create" /\ pc'[t] # "create") => nCreate' = nCreate + 1
        /\ (pc[t] = "store" /\ pc'[t] # "store") => embedding_pipeline' = built[t]
        /\ err'[t] # "TypeError"]_vars

\* Both calls constructed a pipeline and stored it; the cache holds the second
\* thread's, the first thread's store was overwritten.
C7_Witness ==
    /\ nCreateOk = 2
    /\ \A t \in Threads : pc[t] \in {"infer", "build", "returned"}
    /\ built[1] # None
    /\ built[2] # None
    /\ built[1] # built[2]
    /\ embedding_pipeline = built[2]

\* C8: once inference has handed back its outputs nothing checks them: more
\* outputs than rows end the call with IndexError, otherwise the call returns
\* one row per output, pairing output i with the idx of row i.
C8_NoOutputCheck ==
    \A t \in Threads :
        (result[t] # None /\ Outside(t)) =>
            LET out == result[t][1].outputs IN
            IF Len(out) > Len(rows[t])
            THEN /\ pc[t] = "raised"
                 /\ err[t] = "IndexError"
                 /\ ret[t] = None
            ELSE /\ pc[t] = "returned"
                 /\ Len(ret[t][1]) = Len(out)
                 /\ \A i \in 1..Len(out) :
                        ret[t][1][i] = OutputRow(rows[t][i].idx, out[i])

\* The pipeline swapped two outputs and the call returned row 1's idx with
\* row 2's embedding.
C8_Witness ==
    /\ pc[MainThread] = "returned"
    /\ Len(rows[MainThread]) = 2
    /\ Len(ret[MainThread][1]) = 2
    /\ ret[MainThread][1][1].embeddings = Rendered(rows[MainThread][2].text)
    /\ ret[MainThread][1][1].embeddings # Rendered(rows[MainThread][1].text)
    /\ ret[MainThread][1][1].idx = rows[MainThread][1].idx

\* C9: a failed construction leaves the cache unset, a call that sees the
\* cache unset invokes construction with its own batch_size and model_config,
\* a failed inference leaves the cached pipeline in place, and a call that
\* sees the cache set does not construct.
C9_FailureAndCache ==
    [][\A t \in Threads :
        /\ (pc[t] = "create" /\ pc'[t] = "raised") => embedding_pipeline' = None
        /\ (pc[t] = "check" /\ pc'[t] # "check" /\ embedding_pipeline = None) =>
                pc'[t] = "create"
        /\ (pc[t] = "create" /\ pc'[t] # "create") =>
                /\ nCreate' = nCreate + 1
                /\ createArgs' = Some(<<batch_size[t], model_config[t]>>)
        /\ (pc[t] = "infer" /\ pc'[t] = "raised") =>
                /\ embedding_pipeline # None
                /\ embedding_pipeline' = embedding_pipeline
        /\ (pc[t] = "check" /\ pc'[t] # "check" /\ embedding_pipeline # None) =>
                /\ pc'[t] = "infer"
                /\ nCreate' = nCreate]_vars

\* After a failed construction the next call constructed again, with its own
\* arguments.
C9_Witness ==
    /\ pc[MainThread] = "store"
    /\ nCreate = 2
    /\ nCreateOk = 1
    /\ embedding_pipeline = None
    /\ createArgs = Some(<<batch_size[MainThread], model_config[MainThread]>>)
    /\ built[MainThread][1].batch_size = batch_size[MainThread]

\* C10: once a pipeline is cached its model and tokenizer stay what they are,
\* and every call runs inference on the cached pipeline, whatever model_config
\* it was given.
C10_ConfigIgnored ==
    [][/\ embedding_pipeline # None =>
            /\ embedding_pipeline' # None
            /\ embedding_pipeline'[1].model_name = embedding_pipeline[1].model_name
            /\ embedding_pipeline'[1].tokenizer_name = embedding_pipeline[1].tokenizer_name
       /\ \A t \in Threads :
            (used[t] = None /\ used'[t] # None) => used'[t] = embedding_pipeline]_vars

\* A call naming another model returned from the pipeline of the first
\* configuration.
C10_Witness ==
    /\ pc[MainThread] = "returned"
    /\ used[MainThread] # None
    /\ used[MainThread][1].model_name # model_config[MainThread].model_name
    /\ used[MainThread][1].tokenizer_name = model_config[MainThread].tokenizer_name

====
